---------------------------- MODULE Spec2Model ----------------------------
(***************************************************************************)
(* Model of RigidSolver.hpp: a single rigid body (Box) advanced by         *)
(* RigidSolver::step.  tReal values are fixed-point integers in units of   *)
(* 1/Scale; every product and quotient rounds to the nearest unit, the way *)
(* a floating-point operation rounds its exact result.                     *)
(***************************************************************************)
EXTENDS Integers, Sequences, FiniteSets, TLC

\* ------------------------------------------------------------------ bounds
\* total number of step()/init() calls explored
MaxCalls == 5

\* fixed-point resolution of a tReal: 1.0 is represented by Scale
Scale == 10 * 10 * 10

\* ------------------------------------------------------ tReal arithmetic
\* a / b rounded to the nearest integer (b # 0)
RDiv(a, b) ==
  IF b > 0 THEN (a + (b \div 2)) \div b
           ELSE ((0 - a) + ((0 - b) \div 2)) \div (0 - b)

\* tReal product
FMul(a, b) == RDiv(a * b, Scale)

\* tReal quotient
FDiv(a, b) == RDiv(a * Scale, b)

\* largest r in lo..hi with r * r <= n
RECURSIVE ISqrt(_, _, _)
ISqrt(n, lo, hi) ==
  IF lo >= hi THEN lo
  ELSE LET mid == (lo + hi + 1) \div 2
       IN IF mid * mid <= n THEN ISqrt(n, mid, hi) ELSE ISqrt(n, lo, mid - 1)

\* std::sqrt on a tReal
FSqrt(a) == ISqrt(a * Scale, 0, 46340)

\* ------------------------------------------------------------ Vec3f, Mat3f
Vec3f(x, y, z) == <<x, y, z>>

VAdd(a, b) == <<a[1] + b[1], a[2] + b[2], a[3] + b[3]>>

VSub(a, b) == <<a[1] - b[1], a[2] - b[2], a[3] - b[3]>>

\* vector times scalar (either order)
VScale(a, s) == <<FMul(a[1], s), FMul(a[2], s), FMul(a[3], s)>>

\* vector divided by scalar
VDiv(a, s) == <<FDiv(a[1], s), FDiv(a[2], s), FDiv(a[3], s)>>

\* Mat3f(a00, a01, a02, a10, ...): rows of the matrix
Mat3f(a, b, c, d, e, f, g, h, i) == <<<<a, b, c>>, <<d, e, f>>, <<g, h, i>>>>

\* Mat3f::I()
MatI == Mat3f(Scale, 0, 0, 0, Scale, 0, 0, 0, Scale)

\* Mat3f::operator()(i, j), i and j counted from 0
At(m, i, j) == m[i + 1][j + 1]

\* Mat3f * Vec3f
MatVec(m, v) ==
  << FMul(m[1][1], v[1]) + FMul(m[1][2], v[2]) + FMul(m[1][3], v[3]),
     FMul(m[2][1], v[1]) + FMul(m[2][2], v[2]) + FMul(m[2][3], v[3]),
     FMul(m[3][1], v[1]) + FMul(m[3][2], v[2]) + FMul(m[3][3], v[3]) >>

\* Mat3f::invert() of the diagonal inertia tensor
Invert(m) ==
  Mat3f(FDiv(Scale, m[1][1]), 0, 0,
        0, FDiv(Scale, m[2][2]), 0,
        0, 0, FDiv(Scale, m[3][3]))

\* -------------------------------------------------------------- Quaternion
Quaternion(w, x, y, z) == [w |-> w, x |-> x, y |-> y, z |-> z]

\* Quaternion::operator* (Hamilton product)
QMul(p, q) ==
  Quaternion(
    FMul(p.w, q.w) - FMul(p.x, q.x) - FMul(p.y, q.y) - FMul(p.z, q.z),
    FMul(p.w, q.x) + FMul(p.x, q.w) + FMul(p.y, q.z) - FMul(p.z, q.y),
    FMul(p.w, q.y) - FMul(p.x, q.z) + FMul(p.y, q.w) + FMul(p.z, q.x),
    FMul(p.w, q.z) + FMul(p.x, q.y) - FMul(p.y, q.x) + FMul(p.z, q.w))

\* Quaternion::normalized
Normalized(q) ==
  LET mag == FSqrt(FMul(q.w, q.w) + FMul(q.x, q.x)
                   + FMul(q.y, q.y) + FMul(q.z, q.z))
  IN Quaternion(FDiv(q.w, mag), FDiv(q.x, mag), FDiv(q.y, mag), FDiv(q.z, mag))

\* Quaternion::toMatrix
ToMatrix(q) ==
  LET xx == FMul(q.x, q.x)
      yy == FMul(q.y, q.y)
      zz == FMul(q.z, q.z)
      xy == FMul(q.x, q.y)
      xz == FMul(q.x, q.z)
      yz == FMul(q.y, q.z)
      wx == FMul(q.w, q.x)
      wy == FMul(q.w, q.y)
      wz == FMul(q.w, q.z)
  IN Mat3f(
       Scale - 2 * (yy + zz), 2 * (xy - wz), 2 * (xz + wy),
       2 * (xy + wz), Scale - 2 * (xx + zz), 2 * (yz - wx),
       2 * (xz - wy), 2 * (yz + wx), Scale - 2 * (xx + yy))

\* ---------------------------------------------------------- BodyAttributes
Zero3 == Vec3f(0, 0, 0)

\* BodyAttributes::BodyAttributes: the fields the constructor initialises
BodyAttributes ==
  [X |-> Zero3, R |-> MatI, P |-> Zero3, L |-> Zero3,
   V |-> Zero3, omega |-> Zero3, F |-> Zero3, tau |-> Zero3,
   orientation |-> Quaternion(Scale, 0, 0, 0)]

\* worldMat with the rotation block laid out row by row
worldMat_rowMajor(b) ==
  << <<At(b.R, 0, 0), At(b.R, 0, 1), At(b.R, 0, 2), 0>>,
     <<At(b.R, 1, 0), At(b.R, 1, 1), At(b.R, 1, 2), 0>>,
     <<At(b.R, 2, 0), At(b.R, 2, 1), At(b.R, 2, 2), 0>>,
     <<b.X[1], b.X[2], b.X[3], Scale>> >>

\* BodyAttributes::worldMat: the four columns handed to glm::mat4, so that
\* worldMat(b)[c + 1][r + 1] is the element in column c, row r
worldMat(b) ==
  << <<At(b.R, 0, 0), At(b.R, 1, 0), At(b.R, 2, 0), 0>>,
     <<At(b.R, 0, 1), At(b.R, 1, 1), At(b.R, 2, 1), 0>>,
     <<At(b.R, 0, 2), At(b.R, 1, 2), At(b.R, 2, 2), 0>>,
     <<b.X[1], b.X[2], b.X[3], Scale>> >>

\* --------------------------------------------------------------------- Box
Half == Scale \div 2

\* Box::Box deriving the linear momentum from v0 (P = M * v0)
Box_momentumFromV0(w, h, d, dens, v0, omega0) ==
  LET M == FMul(FMul(FMul(dens, w), h), d)
      k == FMul(FDiv(Scale, 12 * Scale), M)
      I0 == Mat3f(FMul(k, FMul(h, h) + FMul(d, d)), 0, 0,
                  0, FMul(k, FMul(w, w) + FMul(d, d)), 0,
                  0, 0, FMul(k, FMul(w, w) + FMul(h, h)))
      base == BodyAttributes
  IN [X |-> base.X, R |-> base.R, P |-> VScale(v0, M), L |-> base.L,
      F |-> base.F, tau |-> base.tau, orientation |-> base.orientation,
      V |-> v0, omega |-> omega0,
      M |-> M, I0 |-> I0, I0inv |-> Invert(I0), Iinv |-> Invert(I0),
      vdata0 |-> << Vec3f(FMul(0 - Half, w), FMul(0 - Half, h), FMul(0 - Half, d)),
                    Vec3f(FMul(Half, w), FMul(0 - Half, h), FMul(0 - Half, d)),
                    Vec3f(FMul(Half, w), FMul(Half, h), FMul(0 - Half, d)),
                    Vec3f(FMul(0 - Half, w), FMul(Half, h), FMul(0 - Half, d)),
                    Vec3f(FMul(0 - Half, w), FMul(0 - Half, h), FMul(Half, d)),
                    Vec3f(FMul(Half, w), FMul(0 - Half, h), FMul(Half, d)),
                    Vec3f(FMul(Half, w), FMul(Half, h), FMul(Half, d)),
                    Vec3f(FMul(0 - Half, w), FMul(Half, h), FMul(Half, d)) >>,
      width |-> w, height |-> h, depth |-> d]

\* Box::Box
Box(w, h, d, dens, v0, omega0) ==
  LET M == FMul(FMul(FMul(dens, w), h), d)
      k == FMul(FDiv(Scale, 12 * Scale), M)
      I0 == Mat3f(FMul(k, FMul(h, h) + FMul(d, d)), 0, 0,
                  0, FMul(k, FMul(w, w) + FMul(d, d)), 0,
                  0, 0, FMul(k, FMul(w, w) + FMul(h, h)))
      base == BodyAttributes
  IN [X |-> base.X, R |-> base.R, P |-> base.P, L |-> base.L,
      F |-> base.F, tau |-> base.tau, orientation |-> base.orientation,
      V |-> v0, omega |-> omega0,
      M |-> M, I0 |-> I0, I0inv |-> Invert(I0), Iinv |-> Invert(I0),
      vdata0 |-> << Vec3f(FMul(0 - Half, w), FMul(0 - Half, h), FMul(0 - Half, d)),
                    Vec3f(FMul(Half, w), FMul(0 - Half, h), FMul(0 - Half, d)),
                    Vec3f(FMul(Half, w), FMul(Half, h), FMul(0 - Half, d)),
                    Vec3f(FMul(0 - Half, w), FMul(Half, h), FMul(0 - Half, d)),
                    Vec3f(FMul(0 - Half, w), FMul(0 - Half, h), FMul(Half, d)),
                    Vec3f(FMul(Half, w), FMul(0 - Half, h), FMul(Half, d)),
                    Vec3f(FMul(Half, w), FMul(Half, h), FMul(Half, d)),
                    Vec3f(FMul(0 - Half, w), FMul(Half, h), FMul(Half, d)) >>,
      width |-> w, height |-> h, depth |-> d]

\* ------------------------------------------------------------- RigidSolver
\* the fixed instantaneous force of computeForceAndTorque, (0.15, 0.25, 0.03)
instantForce == Vec3f((15 * Scale) \div 100, (25 * Scale) \div 100, (3 * Scale) \div 100)

\* default gravity of RigidSolver::RigidSolver, (0, -0.98, 0)
DefaultG == Vec3f(0, 0 - ((98 * Scale) \div 100), 0)

\* RigidSolver::RigidSolver(body0, g); body0 is "null" or "box"
RigidSolver(body0, g) == [body |-> body0, _g |-> g, _step |-> 0, _sim_t |-> 0]

\* RigidSolver::init
init(s, body0) == [s EXCEPT !.body = body0, !._step = 0, !._sim_t = 0]

\* computeForceAndTorque taking the impulse branch on every step from the second
computeForceAndTorque_everyStep(b, s) ==
  LET b1 == [b EXCEPT !.F = VScale(s._g, b.M)]
  IN IF s._step >= 1
     THEN LET r == VSub(b1.vdata0[1], b1.X)
          IN [b1 EXCEPT
                !.F = VAdd(b1.F, instantForce),
                !.tau = Vec3f(
                  FMul(r[2], instantForce[3]) - FMul(r[3], instantForce[2]),
                  FMul(r[3], instantForce[1]) - FMul(r[1], instantForce[3]),
                  FMul(r[1], instantForce[2]) - FMul(r[2], instantForce[1]))]
     ELSE b1

\* RigidSolver::computeForceAndTorque on body b
computeForceAndTorque(b, s) ==
  LET b1 == [b EXCEPT !.F = VScale(s._g, b.M)]
  IN IF s._step = 1
     THEN LET r == VSub(b1.vdata0[1], b1.X)
          IN [b1 EXCEPT
                !.F = VAdd(b1.F, instantForce),
                !.tau = Vec3f(
                  FMul(r[2], instantForce[3]) - FMul(r[3], instantForce[2]),
                  FMul(r[3], instantForce[1]) - FMul(r[1], instantForce[3]),
                  FMul(r[1], instantForce[2]) - FMul(r[2], instantForce[1]))]
     ELSE b1

\* linear update advancing X with the velocity held before the call
LinearUpdate_explicitEuler(b, dt) ==
  LET P1 == VAdd(b.P, VScale(b.F, dt))
  IN [b EXCEPT !.P = P1, !.V = VDiv(P1, b.M), !.X = VAdd(b.X, VScale(b.V, dt))]

\* linear update deriving V before P is advanced
LinearUpdate_staleV(b, dt) ==
  LET P1 == VAdd(b.P, VScale(b.F, dt))
      V1 == VDiv(b.P, b.M)
  IN [b EXCEPT !.P = P1, !.V = V1, !.X = VAdd(b.X, VScale(V1, dt))]

\* step, "Linear momentum update"
LinearUpdate(b, dt) ==
  LET P1 == VAdd(b.P, VScale(b.F, dt))
      V1 == VDiv(P1, b.M)
  IN [b EXCEPT !.P = P1, !.V = V1, !.X = VAdd(b.X, VScale(V1, dt))]

\* step, "Angular momentum update"
AngularUpdate(b, dt) ==
  LET L1 == VAdd(b.L, VScale(b.tau, dt))
  IN [b EXCEPT !.L = L1, !.omega = MatVec(b.Iinv, L1)]

\* 3x3 matrix product and transpose
MatMul(a, b) ==
  [i \in 1..3 |-> [j \in 1..3 |->
     FMul(a[i][1], b[1][j]) + FMul(a[i][2], b[2][j]) + FMul(a[i][3], b[3][j])]]

Transpose(a) == [i \in 1..3 |-> [j \in 1..3 |-> a[j][i]]]

\* orientation update that also refreshes Iinv = R * I0inv * R^T
OrientationUpdate_refreshIinv(b, dt) ==
  LET dq0 == Quaternion(0, b.omega[1], b.omega[2], b.omega[3])
      dq == QMul(QMul(dq0, b.orientation), Quaternion(Half, 0, 0, 0))
      q == Normalized(Quaternion(
             b.orientation.w + FMul(dq.w, dt),
             b.orientation.x + FMul(dq.x, dt),
             b.orientation.y + FMul(dq.y, dt),
             b.orientation.z + FMul(dq.z, dt)))
      R1 == ToMatrix(q)
  IN [b EXCEPT !.orientation = q, !.R = R1,
               !.Iinv = MatMul(MatMul(R1, b.I0inv), Transpose(R1))]

\* step, "Update orientation using quaternion"; the factor 0.5 is converted
\* to Quaternion(0.5, 0, 0, 0) by the constructor's defaults
OrientationUpdate(b, dt) ==
  LET dq0 == Quaternion(0, b.omega[1], b.omega[2], b.omega[3])
      dq == QMul(QMul(dq0, b.orientation), Quaternion(Half, 0, 0, 0))
      q == Normalized(Quaternion(
             b.orientation.w + FMul(dq.w, dt),
             b.orientation.x + FMul(dq.x, dt),
             b.orientation.y + FMul(dq.y, dt),
             b.orientation.z + FMul(dq.z, dt)))
  IN [b EXCEPT !.orientation = q, !.R = ToMatrix(q)]

\* RigidSolver::step, its effect on the bound body
stepBody(b, s, dt) ==
  OrientationUpdate(AngularUpdate(LinearUpdate(computeForceAndTorque(b, s), dt), dt), dt)

\* step that forgets to advance the simulation time
stepSolver_noClock(s, dt) == [s EXCEPT !._step = s._step + 1]

\* RigidSolver::step, its effect on the solver's own fields
stepSolver(s, dt) == [s EXCEPT !._step = s._step + 1, !._sim_t = s._sim_t + dt]

\* ------------------------------------------------------------------- state
VARIABLES
  box,      \* the Box the solver is (to be) bound to
  twin,     \* a second Box built from the same arguments except v0, omega0,
            \* driven by the same calls
  solver,   \* the RigidSolver
  ctor,     \* the arguments the two boxes were constructed with
  last,     \* the operation called last: "new", "init", "step", "worldMat",
            \* or "fault" once step has dereferenced a null body
  dtArg,    \* the dt of the last step call
  mat,      \* the value returned by the last call, when it was worldMat
  ncalls    \* number of step/init calls made

vars == <<box, twin, solver, ctor, last, dtArg, mat, ncalls>>

\* no value returned
NoMat == <<>>

\* box extents (w, h, d) tried
DimSet == { <<Scale, Scale, Scale>>, <<Scale, 2 * Scale, Scale>> }

\* density: the default 10.0
Dens == 10 * Scale

\* (v0, omega0) pairs tried
VelSet == { <<Zero3, Zero3>>, <<Vec3f(Scale, 0, 0), Vec3f(0, Half, 0)>> }

\* gravity vectors tried
GSet == { DefaultG, Zero3 }

\* time steps tried: 0.01 and 0.5
DtSet == { Scale \div 100, Half }

Init ==
  \E dim \in DimSet, vel \in VelSet, tvel \in VelSet, g \in GSet,
     body0 \in {"null", "box"} :
    /\ box = Box(dim[1], dim[2], dim[3], Dens, vel[1], vel[2])
    /\ twin = Box(dim[1], dim[2], dim[3], Dens, tvel[1], tvel[2])
    /\ solver = RigidSolver(body0, g)
    /\ ctor = [dim |-> dim, dens |-> Dens, v0 |-> vel[1], omega0 |-> vel[2],
               tv0 |-> tvel[1], tomega0 |-> tvel[2]]
    /\ last = "new"
    /\ dtArg = 0
    /\ mat = NoMat
    /\ ncalls = 0

\* solver.init(&box)
InitCall ==
  /\ last # "fault"
  /\ ncalls < MaxCalls
  /\ solver' = init(solver, "box")
  /\ last' = "init"
  /\ mat' = NoMat
  /\ ncalls' = ncalls + 1
  /\ UNCHANGED <<box, twin, ctor, dtArg>>

\* solver.step(dt) on a bound solver
Step(dt) ==
  /\ last # "fault"
  /\ solver.body = "box"
  /\ ncalls < MaxCalls
  /\ box' = stepBody(box, solver, dt)
  /\ twin' = stepBody(twin, solver, dt)
  /\ solver' = stepSolver(solver, dt)
  /\ last' = "step"
  /\ dtArg' = dt
  /\ mat' = NoMat
  /\ ncalls' = ncalls + 1
  /\ UNCHANGED ctor

\* solver.step(dt) on an unbound solver: computeForceAndTorque writes through
\* the null body pointer and the program ends there
StepUnbound ==
  /\ last # "fault"
  /\ solver.body = "null"
  /\ last' = "fault"
  /\ mat' = NoMat
  /\ UNCHANGED <<box, twin, solver, ctor, dtArg, ncalls>>

\* box.worldMat()
WorldMatCall ==
  /\ last # "fault"
  /\ mat' = worldMat(box)
  /\ last' = "worldMat"
  /\ UNCHANGED <<box, twin, solver, ctor, dtArg, ncalls>>

Next ==
  \/ InitCall
  \/ \E dt \in DtSet : Step(dt)
  \/ StepUnbound
  \/ WorldMatCall

Spec == Init /\ [][Next]_vars

\* ------------------------------------------------------------------ claims
\* cross product a x b of two tReal vectors
Cross(a, b) ==
  Vec3f(FMul(a[2], b[3]) - FMul(a[3], b[2]),
        FMul(a[3], b[1]) - FMul(a[1], b[3]),
        FMul(a[1], b[2]) - FMul(a[2], b[1]))

\* C1: the impulse is applied on the first step() since binding (counter 0
\* on entry): then F = M*g + instantForce and tau = (vdata0[0] - X) x
\* instantForce with X taken on entry; on every other step F = M*g.
C1_ImpulseOnFirstStep ==
  [][last' = "step" =>
       IF solver._step = 0
       THEN /\ box'.F = VAdd(VScale(solver._g, box.M), instantForce)
            /\ box'.tau = Cross(VSub(box.vdata0[1], box.X), instantForce)
       ELSE box'.F = VScale(solver._g, box.M)]_vars

\* C2: torque is not carried across steps: every step() other than the one
\* that takes the impulse branch integrates a zero tau and leaves L as it was.
C2_TorqueNotCarried ==
  [][(last' = "step" /\ solver._step # 1) =>
       (box'.tau = Zero3 /\ box'.L = box.L)]_vars

\* C3: init resets the step counter and the simulation time to zero, and the
\* step() that follows init takes the impulse branch again.
C3_RebindRestartsImpulse ==
  [][/\ last' = "init" => (solver'._step = 0 /\ solver'._sim_t = 0)
     /\ (last = "init" /\ last' = "step") =>
          /\ box'.F = VAdd(VScale(solver._g, box.M), instantForce)
          /\ box'.tau = Cross(VSub(box.vdata0[1], box.X), instantForce)]_vars

\* the box as Box::Box built it
NewBox ==
  Box(ctor.dim[1], ctor.dim[2], ctor.dim[3], ctor.dens, ctor.v0, ctor.omega0)

Close(a, b, eps) ==
  \A i \in 1..3 : a[i] - b[i] <= eps /\ b[i] - a[i] <= eps

\* rounding error of (P / M) * M: half a unit of V scaled by M, plus one unit
Tol(b) == (b.M \div (2 * Scale)) + 1

\* C5: after every step V * M equals P (to rounding) and omega = Iinv * L,
\* whatever V and omega the body was built with.
C5_DerivedVelocities ==
  last = "step" =>
    \A b \in {box, twin} :
      /\ Close(VScale(b.V, b.M), b.P, Tol(b))
      /\ b.omega = MatVec(b.Iinv, b.L)

\* after a step with non-zero momenta, on a body built with non-zero velocities
C5_Witness ==
  /\ last = "step"
  /\ ctor.v0 # Zero3 /\ ctor.omega0 # Zero3
  /\ box.P # Zero3 /\ box.L # Zero3

\* C6: counter and clock are 0 after construction and after init; every step
\* adds exactly 1 to the counter and exactly dt to the clock; the counter
\* decreases only through init.
C6_CounterAndClock ==
  /\ [](last = "new" => (solver._step = 0 /\ solver._sim_t = 0))
  /\ [][/\ last' = "step" =>
             /\ solver'._step = solver._step + 1
             /\ solver'._sim_t = solver._sim_t + dtArg'
        /\ last' = "init" => (solver'._step = 0 /\ solver'._sim_t = 0)
        /\ solver'._step < solver._step => last' = "init"
        /\ last' = "worldMat" => solver' = solver]_vars

\* three steps since a re-binding that followed an earlier step
C6_Witness ==
  /\ last = "step"
  /\ solver._step = 3
  /\ ncalls > 4
  /\ solver._sim_t = Half + 2 * (Scale \div 100)

\* the fields step may write
Kinematic == {"X", "R", "orientation", "P", "L", "V", "omega", "F", "tau"}

\* C7: no call changes M, I0, I0inv, Iinv, vdata0 (nor any field outside X, R,
\* orientation, P, L, V, omega, F, tau), and Iinv stays equal to I0inv.
C7_MassInertiaGeometryFixed ==
  /\ [](box.Iinv = box.I0inv)
  /\ [][\A f \in (DOMAIN box) \ Kinematic : box'[f] = box[f]]_vars

\* a step that rotated a non-cubic box
C7_Witness ==
  /\ last = "step"
  /\ box.R # MatI
  /\ ctor.dim[2] # ctor.dim[1]
  /\ box.Iinv = box.I0inv

\* C8: worldMat returns, column by column, the rotation R in the upper-left
\* 3x3 block (column j holds R(0,j), R(1,j), R(2,j)), (X, 1) as last column
\* and (0, 0, 0, 1) as bottom row, and changes no body field.
C8_WorldMatLayout ==
  /\ [](last = "worldMat" =>
          /\ \A i \in 0..2 : \A j \in 0..2 : mat[j + 1][i + 1] = At(box.R, i, j)
          /\ \A i \in 0..2 : mat[4][i + 1] = box.X[i + 1]
          /\ \A j \in 0..2 : mat[j + 1][4] = 0
          /\ mat[4][4] = Scale)
  /\ [][last' = "worldMat" => box' = box]_vars

\* worldMat of a body that has moved and whose rotation is not symmetric
C8_Witness ==
  /\ last = "worldMat"
  /\ At(box.R, 0, 1) # At(box.R, 1, 0)
  /\ box.X # Zero3

\* C9: step(dt) leaves P = P0 + F*dt, V = P/M and X = X0 + V*dt, with F the
\* force of this call and V the velocity just derived from the new P.
C9_SemiImplicitEuler ==
  [][last' = "step" =>
       /\ box'.P = VAdd(box.P, VScale(box'.F, dtArg'))
       /\ box'.V = VDiv(box'.P, box.M)
       /\ box'.X = VAdd(box.X, VScale(box'.V, dtArg'))]_vars

\* a first step from rest that already moved the body
C9_Witness ==
  /\ last = "step"
  /\ solver._step = 1
  /\ ncalls = 1
  /\ ctor.v0 = Zero3
  /\ box.X # Zero3

\* C10: two boxes built alike except for v0 and omega0, driven by the same
\* calls, agree on X, orientation, R, P, L always and on V, omega after a step.
C10_InitialVelocityIgnored ==
  /\ \A f \in {"X", "orientation", "R", "P", "L"} : box[f] = twin[f]
  /\ last = "step" => (box.V = twin.V /\ box.omega = twin.omega)

\* a moved and rotated pair whose constructors got different velocities
C10_Witness ==
  /\ last = "step"
  /\ ctor.v0 # ctor.tv0 /\ ctor.omega0 # ctor.tomega0
  /\ box.X # Zero3 /\ box.R # MatI
  /\ box.V = twin.V /\ box.omega = twin.omega

====
